---- MODULE Spec2Model ----
(***************************************************************************)
(* Model of the real-time chat layer of the Shopify AI chat bot:           *)
(*   - ChatService (server/services/chat.ts): the connectedClients map,    *)
(*     join / send_message handling, the turn pipeline of                  *)
(*     handleUserMessage + generateResponse, broadcastToConversation and   *)
(*     cleanupDisconnectedClients;                                         *)
(*   - the WebSocket server and the REST message route of routes.ts;       *)
(*   - the storage calls the pipeline awaits (storage.ts).                 *)
(* Every await of the source is a point where other handlers may run, so   *)
(* each action is the code between two awaits; an awaited call resolves    *)
(* either with its result or with a rejection.                             *)
(***************************************************************************)
EXTENDS Integers, Sequences, FiniteSets, TLC

\* ---------------------------------------------------------------- bounds
MaxTurns == 2   \* turns started in TurnSpec
HubTurns == 1   \* turns started in Spec
MaxJoins == 2   \* join_conversation events handled
MaxHistory == 12 \* messages a conversation holds before the turn of HistorySpec

Turns == 1..MaxTurns

\* The WebSocket objects the server may accept, in order of acceptance.
Conns == <<"ws1", "ws2">>
ConnSet == {Conns[i] : i \in 1..Len(Conns)}

\* Conversation ids, and the store that owns each conversation.
ConvIds == {"convA", "convB"}
StoreOf(conversationId) == IF conversationId = "convA" THEN "store1" ELSE "store2"

\* ------------------------------------------------------------ program text
ApologyText == "I apologize, but I'm experiencing some technical difficulties. Please try again in a moment, or feel free to contact our support team directly."
FallbackMetadata == [error |-> TRUE, errorType |-> "ai_generation_failed"]
EmptyMetadata == [empty |-> TRUE]
ModelName == "glm-4.5-flash"

\* User texts.
Contents == {"Looking for running shoes", "Can I get a refund for my order?"}
ClassifyContents ==
  Contents \cup {"This is broken and I'm upset", "Do you have wireless headphones under $50?"}

\* Texts with keywords of several intents, in mixed case and inside longer
\* words, and a text with none.
PriorityContents ==
  {"I can't FIND the return policy", "What is wrong with the shipping?",
   "WHAT is the Problem", "Showroom hours", "Hello there"}

\* String.prototype.toLowerCase over the ASCII letters, and String.prototype.includes.
UpperCase == "ABCDEFGHIJKLMNOPQRSTUVWXYZ"
LowerCase == "abcdefghijklmnopqrstuvwxyz"
LowerOf ==
  [ch \in {SubSeq(UpperCase, i, i) : i \in 1..Len(UpperCase)} |->
     LET i == CHOOSE j \in 1..Len(UpperCase) : SubSeq(UpperCase, j, j) = ch
     IN SubSeq(LowerCase, i, i)]
LowerChar(ch) == IF ch \in DOMAIN LowerOf THEN LowerOf[ch] ELSE ch

RECURSIVE LowerFrom(_, _)
LowerFrom(str, i) ==
  IF i > Len(str) THEN ""
  ELSE LowerChar(SubSeq(str, i, i)) \o LowerFrom(str, i + 1)

toLowerCase(str) == LowerFrom(str, 1)

includes(str, searchString) ==
  \E i \in 1..(Len(str) - Len(searchString) + 1) :
    SubSeq(str, i, i + Len(searchString) - 1) = searchString

\* The keywords analyzeQuery looks for, and those the lower-cased query holds.
IntentKeywords ==
  {"looking for", "find", "recommend", "suggest", "return", "shipping", "policy", "refund",
   "problem", "issue", "wrong", "complaint", "how", "what", "when", "where"}
KeywordsIn(query) ==
  UNION {{kw \in IntentKeywords : includes(lowerQuery, kw)} : lowerQuery \in {toLowerCase(query)}}

ComplaintFirst(query) ==
  LET kw == KeywordsIn(query) IN
  IF kw \cap {"looking for", "find", "recommend", "suggest"} # {} THEN "product_search"
  ELSE IF kw \cap {"problem", "issue", "wrong", "complaint"} # {} THEN "complaint"
  ELSE IF kw \cap {"return", "shipping", "policy", "refund"} # {} THEN "policy_question"
  ELSE IF kw \cap {"how", "what", "when", "where"} # {} THEN "general_inquiry"
  ELSE "other"
IntentOfQuery(query) ==
  LET kw == KeywordsIn(query) IN
  IF kw \cap {"looking for", "find", "recommend", "suggest"} # {} THEN "product_search"
  ELSE IF kw \cap {"return", "shipping", "policy", "refund"} # {} THEN "policy_question"
  ELSE IF kw \cap {"problem", "issue", "wrong", "complaint"} # {} THEN "complaint"
  ELSE IF kw \cap {"how", "what", "when", "where"} # {} THEN "general_inquiry"
  ELSE "other"

\* analyzeQuery over the texts of the model, each classified once.
IntentTable == [query \in ClassifyContents \cup PriorityContents |-> IntentOfQuery(query)]
analyzeQuery(query) ==
  IF query \in DOMAIN IntentTable THEN IntentTable[query] ELSE IntentOfQuery(query)

\* The limit getStoreContext passes to searchStoreData.
SearchLimit(intent) ==
  IF intent = "product_search" THEN 20
  ELSE IF intent = "policy_question" THEN 5
  ELSE 10

\* ---------------------------------------------------------------- state
VARIABLES
  readyState,        \* ws.readyState of each WebSocket ("NONE": not yet accepted)
  connectedClients,  \* ChatService.connectedClients: a JS Map, as its entry list
  joinedAcks,        \* 'joined' events sent, per connection and id
  inbox,             \* new_message / error events each connection was sent
  broadcasts,        \* new_message broadcasts made so far: <<turn, role>>
  pc,                \* the await each turn is suspended at
  req,               \* the inbound event / request of each turn
  ctx,               \* store id and limit of the turn's searchStoreData, and the
                     \* conversationHistory of the turn (ids of message rows)
  gatewayLog,        \* outcomes of the turn's calls of zaiService.generateResponse
  messages,          \* the messages table, in insertion order
  aiInteractions,    \* the ai_interactions table
  lastMessageAt,     \* conversations.lastMessageAt
  ignored            \* type of the last inbound event the handler dropped

vars == <<readyState, connectedClients, joinedAcks, inbox, broadcasts,
          pc, req, ctx, gatewayLog, messages, aiInteractions, lastMessageAt, ignored>>

hubVars == <<connectedClients, joinedAcks, ignored>>
turnVars == <<pc, req, ctx, gatewayLog>>
storeVars == <<messages, aiInteractions, lastMessageAt>>

NoReq == [kind |-> "none", ws |-> "", conversationId |-> "", content |-> "", role |-> ""]
NoCtx == [storeId |-> "", limit |-> 0, history |-> << >>]

\* --------------------------------------------------------- Map operations
RECURSIVE MapIndex(_, _, _)
MapIndex(m, k, i) ==
  IF i > Len(m) THEN 0
  ELSE IF m[i].key = k THEN i
  ELSE MapIndex(m, k, i + 1)

MapHas(m, k) == MapIndex(m, k, 1) # 0

\* Map.prototype.set: an existing key keeps its place and gets the new value,
\* a new key is appended.
MapSetKeepFirst(m, k, v) ==
  IF MapIndex(m, k, 1) = 0 THEN Append(m, [key |-> k, ws |-> v]) ELSE m
MapSetAppendAlways(m, k, v) == Append(m, [key |-> k, ws |-> v])
MapSet(m, k, v) ==
  LET i == MapIndex(m, k, 1) IN
  IF i = 0 THEN Append(m, [key |-> k, ws |-> v])
  ELSE [m EXCEPT ![i] = [key |-> k, ws |-> v]]

Entries(m) == {m[i] : i \in 1..Len(m)}

\* The connections a broadcastToConversation call sends to.
BroadcastTargets(conversationId, excludeWs) ==
  {e.ws : e \in {x \in Entries(connectedClients) :
                   /\ x.key = conversationId
                   /\ x.ws # excludeWs
                   /\ readyState[x.ws] = "OPEN"}}

\* The connections the REST route sends to: every open client of the server.
WssClientTargets == {c \in ConnSet : readyState[c] = "OPEN"}

\* The entries cleanupDisconnectedClients keeps.
CleanupAll(m) == SelectSeq(m, LAMBDA e : FALSE)
CleanupClosedOnly(m) == SelectSeq(m, LAMBDA e : readyState[e.ws] # "CLOSED")
Cleanup(m) == SelectSeq(m, LAMBDA e : readyState[e.ws] = "OPEN")

NewMessageEvent(t, role) ==
  [type |-> "new_message", conversationId |-> req[t].conversationId, turn |-> t, role |-> role]
ErrorEvent(t) ==
  [type |-> "error", conversationId |-> "", turn |-> t, role |-> ""]

Deliver(targets, event) ==
  [c \in ConnSet |-> IF c \in targets THEN inbox[c] \cup {event} ELSE inbox[c]]

\* new Date(): a logical clock that advances with every row written.
Now == Len(messages) + Len(aiInteractions)

TotalJoins ==
  LET RECURSIVE Sum(_)
      Sum(S) == IF S = {} THEN 0
                ELSE LET p == CHOOSE x \in S : TRUE
                     IN joinedAcks[p[1]][p[2]] + Sum(S \ {p})
  IN Sum(ConnSet \X ConvIds)

\* ----------------------------------------------------------------- Init
Init ==
  /\ readyState = [c \in ConnSet |-> "NONE"]
  /\ connectedClients = << >>
  /\ joinedAcks = [c \in ConnSet |-> [k \in ConvIds |-> 0]]
  /\ inbox = [c \in ConnSet |-> {}]
  /\ broadcasts = {}
  /\ pc = [t \in Turns |-> "idle"]
  /\ req = [t \in Turns |-> NoReq]
  /\ ctx = [t \in Turns |-> NoCtx]
  /\ gatewayLog = [t \in Turns |-> << >>]
  /\ messages = << >>
  /\ aiInteractions = << >>
  /\ lastMessageAt = [k \in ConvIds |-> 0]
  /\ ignored = "none"

\* ------------------------------------------------- connections and the hub
\* wss.on('connection'): the server accepts the next WebSocket.
Connect ==
  \E i \in 1..Len(Conns) :
    /\ readyState[Conns[i]] = "NONE"
    /\ \A j \in 1..(i - 1) : readyState[Conns[j]] # "NONE"
    /\ readyState' = [readyState EXCEPT ![Conns[i]] = "OPEN"]
    /\ UNCHANGED <<hubVars, inbox, broadcasts, turnVars, storeVars>>

\* The transport stops being open and no close event has been handled yet.
Drop(c) ==
  /\ readyState[c] = "OPEN"
  /\ readyState' = [readyState EXCEPT ![c] = "CLOSING"]
  /\ UNCHANGED <<hubVars, inbox, broadcasts, turnVars, storeVars>>

\* ws.on('close'): the handler only logs.
Close(c) ==
  /\ readyState[c] \in {"OPEN", "CLOSING"}
  /\ readyState' = [readyState EXCEPT ![c] = "CLOSED"]
  /\ UNCHANGED <<hubVars, inbox, broadcasts, turnVars, storeVars>>

\* handleWebSocketMessage, case 'join_conversation' with a conversationId.
JoinConversation(c, k) ==
  /\ readyState[c] = "OPEN"
  /\ TotalJoins < MaxJoins
  /\ connectedClients' = MapSet(connectedClients, k, c)
  /\ joinedAcks' = [joinedAcks EXCEPT ![c][k] = @ + 1]
  /\ UNCHANGED <<readyState, ignored, inbox, broadcasts, turnVars, storeVars>>

\* The setInterval callback: cleanupDisconnectedClients.
Sweep ==
  /\ connectedClients' = Cleanup(connectedClients)
  /\ UNCHANGED <<readyState, joinedAcks, ignored, inbox, broadcasts, turnVars, storeVars>>

\* ------------------------------------------------------- the turn pipeline
UserMessage(t) ==
  [id |-> Len(messages) + 1, turn |-> t, conversationId |-> req[t].conversationId,
   role |-> req[t].role, content |-> req[t].content, metadata |-> EmptyMetadata]

AiMessage(t) ==
  [id |-> Len(messages) + 1, turn |-> t, conversationId |-> req[t].conversationId,
   role |-> "assistant", content |-> gatewayLog[t][Len(gatewayLog[t])],
   metadata |-> [model |-> ModelName, intent |-> analyzeQuery(req[t].content),
                 contextProducts |-> IF ctx[t].limit < 5 THEN ctx[t].limit ELSE 5]]

FallbackMessage(t) ==
  [id |-> Len(messages) + 1, turn |-> t, conversationId |-> req[t].conversationId,
   role |-> "assistant", content |-> ApologyText, metadata |-> FallbackMetadata]

IsNextIdleAfterDone(t) ==
  /\ pc[t] = "idle"
  /\ \A j \in Turns : j < t => pc[j] = "done"

IsNextIdle(t) ==
  /\ pc[t] = "idle"
  /\ \A j \in Turns : j < t => pc[j] # "idle"

\* handleWebSocketMessage, case 'send_message' with conversationId and content:
\* handleUserMessage runs up to its first await, storage.createMessage.
SendMessage(t, c, k, content) ==
  /\ IsNextIdle(t)
  /\ readyState[c] = "OPEN"
  /\ req' = [req EXCEPT ![t] = [kind |-> "ws", ws |-> c, conversationId |-> k,
                                 content |-> content, role |-> "user"]]
  /\ pc' = [pc EXCEPT ![t] = "saveUser"]
  /\ UNCHANGED <<readyState, hubVars, inbox, broadcasts, ctx, gatewayLog, storeVars>>

\* ws.send of the 'error' event in the catch of handleUserMessage.
SendError(t) ==
  Deliver(IF readyState[req[t].ws] = "OPEN" THEN {req[t].ws} ELSE {}, ErrorEvent(t))

\* createMessage resolved: broadcast the user turn, then generateResponse is
\* called with userMessage.conversationId as its storeId and awaits getMessages.
SaveUserOkNoPersist(t) ==
  /\ pc[t] = "saveUser"
  /\ messages' = messages
  /\ inbox' = Deliver(BroadcastTargets(req[t].conversationId, "none"), NewMessageEvent(t, "user"))
  /\ broadcasts' = broadcasts \cup {<<t, "user">>}
  /\ ctx' = [ctx EXCEPT ![t].storeId = req[t].conversationId]
  /\ pc' = [pc EXCEPT ![t] = "getHistory"]
  /\ UNCHANGED <<readyState, hubVars, req, gatewayLog, aiInteractions, lastMessageAt>>
SaveUserOkNoBroadcast(t) ==
  /\ pc[t] = "saveUser"
  /\ messages' = Append(messages, UserMessage(t))
  /\ ctx' = [ctx EXCEPT ![t].storeId = req[t].conversationId]
  /\ pc' = [pc EXCEPT ![t] = "getHistory"]
  /\ UNCHANGED <<readyState, hubVars, inbox, broadcasts, req, gatewayLog, aiInteractions, lastMessageAt>>
SaveUserOkRaiseOnClosed(t) ==
  /\ pc[t] = "saveUser"
  /\ messages' = Append(messages, UserMessage(t))
  /\ IF \E x \in Entries(connectedClients) :
          x.key = req[t].conversationId /\ readyState[x.ws] # "OPEN"
     THEN /\ inbox' = SendError(t)
          /\ pc' = [pc EXCEPT ![t] = "done"]
          /\ UNCHANGED <<broadcasts, ctx>>
     ELSE /\ inbox' = Deliver(BroadcastTargets(req[t].conversationId, "none"), NewMessageEvent(t, "user"))
          /\ broadcasts' = broadcasts \cup {<<t, "user">>}
          /\ ctx' = [ctx EXCEPT ![t].storeId = req[t].conversationId]
          /\ pc' = [pc EXCEPT ![t] = "getHistory"]
  /\ UNCHANGED <<readyState, hubVars, req, gatewayLog, aiInteractions, lastMessageAt>>

SaveUserOk(t) ==
  /\ pc[t] = "saveUser"
  /\ messages' = Append(messages, UserMessage(t))
  /\ inbox' = Deliver(BroadcastTargets(req[t].conversationId, "none"), NewMessageEvent(t, "user"))
  /\ broadcasts' = broadcasts \cup {<<t, "user">>}
  /\ ctx' = [ctx EXCEPT ![t].storeId = req[t].conversationId]
  /\ pc' = [pc EXCEPT ![t] = "getHistory"]
  /\ UNCHANGED <<readyState, hubVars, req, gatewayLog, aiInteractions, lastMessageAt>>

\* createMessage rejected: the catch of handleUserMessage sends 'error'.
SaveUserFailToFallback(t) ==
  /\ pc[t] = "saveUser"
  /\ pc' = [pc EXCEPT ![t] = "saveFallback"]
  /\ UNCHANGED <<readyState, hubVars, inbox, broadcasts, req, ctx, gatewayLog, storeVars>>
SaveUserFail(t) ==
  /\ pc[t] = "saveUser"
  /\ inbox' = SendError(t)
  /\ pc' = [pc EXCEPT ![t] = "done"]
  /\ UNCHANGED <<readyState, hubVars, broadcasts, req, ctx, gatewayLog, storeVars>>

\* POST /api/conversations/:conversationId/messages up to storage.createMessage.
RestPostMessage(t, k, role, content) ==
  /\ IsNextIdle(t)
  /\ req' = [req EXCEPT ![t] = [kind |-> "rest", ws |-> "", conversationId |-> k,
                                 content |-> content, role |-> role]]
  /\ pc' = [pc EXCEPT ![t] = "restSave"]
  /\ UNCHANGED <<readyState, hubVars, inbox, broadcasts, ctx, gatewayLog, storeVars>>

RestSaveOk(t) ==
  /\ pc[t] = "restSave"
  /\ messages' = Append(messages, UserMessage(t))
  /\ pc' = [pc EXCEPT ![t] = IF req[t].role = "user" THEN "restGetConv" ELSE "done"]
  /\ UNCHANGED <<readyState, hubVars, inbox, broadcasts, req, ctx, gatewayLog, aiInteractions, lastMessageAt>>

\* storage.getConversation resolved: generateResponse(conversation.storeId, ...).
RestGetConvOk(t) ==
  /\ pc[t] = "restGetConv"
  /\ ctx' = [ctx EXCEPT ![t].storeId = StoreOf(req[t].conversationId)]
  /\ pc' = [pc EXCEPT ![t] = "getHistory"]
  /\ UNCHANGED <<readyState, hubVars, inbox, broadcasts, req, gatewayLog, storeVars>>

\* A rejection in the route's try block: the response is a 500.
RestFail(t) ==
  /\ pc[t] \in {"restSave", "restGetConv"}
  /\ pc' = [pc EXCEPT ![t] = "done"]
  /\ UNCHANGED <<readyState, hubVars, inbox, broadcasts, req, ctx, gatewayLog, storeVars>>

\* ---------------------------------------------------- generateResponse
\* storage.getMessages: the rows of the conversation ordered by timestamp,
\* here as their ids.
RECURSIVE SelectIds(_, _)
SelectIds(conversationId, n) ==
  IF n = 0 THEN << >>
  ELSE IF messages[n].conversationId = conversationId
       THEN Append(SelectIds(conversationId, n - 1), messages[n].id)
       ELSE SelectIds(conversationId, n - 1)

getMessages(conversationId) == SelectIds(conversationId, Len(messages))

\* Array.prototype.slice(-10), in generateResponse of ChatService and of ZAIService.
HistoryCap == 10
SliceOldest(seq) ==
  IF Len(seq) <= HistoryCap THEN seq ELSE SubSeq(seq, 1, HistoryCap)
Slice(seq) ==
  IF Len(seq) <= HistoryCap THEN seq ELSE SubSeq(seq, Len(seq) - HistoryCap + 1, Len(seq))

\* The messages array of the request body zaiService.generateResponse posts:
\* the system prompt, the history sliced once more, the prompt.
ZaiMessages(t) ==
  <<[role |-> "system", content |-> "systemPrompt"]>>
    \o [i \in 1..Len(Slice(ctx[t].history)) |->
          [role |-> messages[Slice(ctx[t].history)[i]].role,
           content |-> messages[Slice(ctx[t].history)[i]].content]]
    \o <<[role |-> "user", content |-> req[t].content]>>

\* storage.getMessages resolved; getStoreContext classifies the query and
\* awaits searchStoreData with the limit of the intent.
GetHistoryOk(t) ==
  /\ pc[t] = "getHistory"
  /\ ctx' = [ctx EXCEPT ![t].limit = SearchLimit(analyzeQuery(req[t].content)),
                        ![t].history = Slice(getMessages(req[t].conversationId))]
  /\ pc' = [pc EXCEPT ![t] = "searchStore"]
  /\ UNCHANGED <<readyState, hubVars, inbox, broadcasts, req, gatewayLog, storeVars>>

\* searchStoreData resolved; a policy question goes on to getPages and
\* getBlogPosts, any other intent to the Gateway.
SearchStoreOk(t) ==
  /\ pc[t] = "searchStore"
  /\ pc' = [pc EXCEPT ![t] = IF analyzeQuery(req[t].content) = "policy_question"
                             THEN "getPages" ELSE "gateway"]
  /\ UNCHANGED <<readyState, hubVars, inbox, broadcasts, req, ctx, gatewayLog, storeVars>>

GetPagesOk(t) ==
  /\ pc[t] = "getPages"
  /\ pc' = [pc EXCEPT ![t] = "getBlogPosts"]
  /\ UNCHANGED <<readyState, hubVars, inbox, broadcasts, req, ctx, gatewayLog, storeVars>>

GetBlogPostsOk(t) ==
  /\ pc[t] = "getBlogPosts"
  /\ pc' = [pc EXCEPT ![t] = "gateway"]
  /\ UNCHANGED <<readyState, hubVars, inbox, broadcasts, req, ctx, gatewayLog, storeVars>>

\* What the endpoint can answer to the fetch of zaiService.generateResponse:
\* no answer at the network level, a status outside 2xx, a body that is not
\* JSON, JSON without a choices array, an empty choices array, a choice without
\* text, or a choice with text.
EndpointAnswers ==
  {"network_error", "http_error", "invalid_json", "choices_absent",
   "choices_empty", "content_empty", "text"}

\* zaiService.generateResponse after the fetch settles: "fail" stands for the
\* throw of 'Failed to generate AI response', any other value is the response
\* text it returns.
CannedReply == "I apologize, but I was unable to generate a response."
ZaiGenerateResponse(answer) ==
  IF answer = "network_error" THEN "fail"
  ELSE IF answer = "http_error" THEN "fail"
  ELSE IF answer = "invalid_json" THEN "fail"
  ELSE IF answer = "choices_absent" THEN "fail"
  ELSE IF answer \in {"choices_empty", "content_empty"} THEN CannedReply
  ELSE "reply"

\* The await of zaiService.generateResponse settles: on a return the try block
\* goes on to storage.createMessage of the reply, on a throw the catch runs.
\* conversationHistory is not read again after the call.
GatewayReturn(t, answer) ==
  /\ pc[t] = "gateway"
  /\ gatewayLog' = [gatewayLog EXCEPT ![t] = Append(@, ZaiGenerateResponse(answer))]
  /\ pc' = [pc EXCEPT ![t] = IF ZaiGenerateResponse(answer) = "fail"
                             THEN "saveFallback" ELSE "saveAi"]
  /\ ctx' = [ctx EXCEPT ![t].history = << >>]
  /\ UNCHANGED <<readyState, hubVars, inbox, broadcasts, req, storeVars>>

\* zaiService.generateResponse returned the generated text.
GatewayOk(t) == GatewayReturn(t, "text")

\* zaiService.generateResponse threw 'Failed to generate AI response'.
GatewayFail(t) == GatewayReturn(t, "network_error")

\* The fetch of zaiService.generateResponse carries no timeout and no abort
\* signal: against an endpoint that never answers, the await never resumes.
GatewaySilent(t) ==
  /\ pc[t] = "gateway"
  /\ pc' = [pc EXCEPT ![t] = "gatewaySilent"]
  /\ UNCHANGED <<readyState, hubVars, inbox, broadcasts, req, ctx, gatewayLog, storeVars>>

SaveAiOk(t) ==
  /\ pc[t] = "saveAi"
  /\ messages' = Append(messages, AiMessage(t))
  /\ pc' = [pc EXCEPT ![t] = "logAi"]
  /\ UNCHANGED <<readyState, hubVars, inbox, broadcasts, req, ctx, gatewayLog, aiInteractions, lastMessageAt>>

\* The assistant message of turn t written by the try block.
AiMessageOf(t) ==
  CHOOSE m \in {messages[i] : i \in 1..Len(messages)} :
    m.turn = t /\ m.role = "assistant" /\ m.content # ApologyText

LogAiOk(t) ==
  /\ pc[t] = "logAi"
  /\ aiInteractions' = Append(aiInteractions,
       [conversationId |-> req[t].conversationId, messageId |-> AiMessageOf(t).id,
        turn |-> t, model |-> ModelName])
  /\ pc' = [pc EXCEPT ![t] = "updateLast"]
  /\ UNCHANGED <<readyState, hubVars, inbox, broadcasts, req, ctx, gatewayLog, messages, lastMessageAt>>

\* The caller of generateResponse sends the returned message: handleUserMessage
\* through broadcastToConversation, the REST route to every open client.
ReplyTargetsSender(t) ==
  IF req[t].kind = "ws" THEN {c \in {req[t].ws} : readyState[c] = "OPEN"}
  ELSE WssClientTargets
ReplyTargets(t) ==
  IF req[t].kind = "ws" THEN BroadcastTargets(req[t].conversationId, "none")
  ELSE WssClientTargets

\* updateConversationLastMessage resolved: generateResponse returns aiMessage.
UpdateLastOk(t) ==
  /\ pc[t] = "updateLast"
  /\ lastMessageAt' = [lastMessageAt EXCEPT ![req[t].conversationId] = Now]
  /\ inbox' = Deliver(ReplyTargets(t), NewMessageEvent(t, "assistant"))
  /\ broadcasts' = broadcasts \cup {<<t, "assistant">>}
  /\ pc' = [pc EXCEPT ![t] = "done"]
  /\ UNCHANGED <<readyState, hubVars, req, ctx, gatewayLog, messages, aiInteractions>>

\* A rejection of any other await in the try block of generateResponse: the
\* catch calls storage.createMessage with the fallback message.
TryFail(t) ==
  /\ pc[t] \in {"getHistory", "searchStore", "getPages", "getBlogPosts",
                "saveAi", "logAi", "updateLast"}
  /\ pc' = [pc EXCEPT ![t] = "saveFallback"]
  /\ ctx' = [ctx EXCEPT ![t].history = << >>]
  /\ UNCHANGED <<readyState, hubVars, inbox, broadcasts, req, gatewayLog, storeVars>>

\* The fallback write resolved: generateResponse returns fallbackMessage.
SaveFallbackOk(t) ==
  /\ pc[t] = "saveFallback"
  /\ messages' = Append(messages, FallbackMessage(t))
  /\ inbox' = Deliver(ReplyTargets(t), NewMessageEvent(t, "assistant"))
  /\ broadcasts' = broadcasts \cup {<<t, "assistant">>}
  /\ pc' = [pc EXCEPT ![t] = "done"]
  /\ UNCHANGED <<readyState, hubVars, req, ctx, gatewayLog, aiInteractions, lastMessageAt>>

\* The fallback write rejected: generateResponse throws; handleUserMessage
\* sends 'error' to the sender, the REST route answers 500.
SaveFallbackFail(t) ==
  /\ pc[t] = "saveFallback"
  /\ inbox' = IF req[t].kind = "ws" THEN SendError(t) ELSE inbox
  /\ pc' = [pc EXCEPT ![t] = "done"]
  /\ UNCHANGED <<readyState, hubVars, broadcasts, req, ctx, gatewayLog, storeVars>>

\* handleWebSocketMessage, cases 'typing_start' and 'typing_stop' with a
\* conversationId: relayed through broadcastToConversation, excluding the sender.
TypingEvent(type, k) ==
  [type |-> type, conversationId |-> k, turn |-> 0, role |-> ""]

Typing(c, type, k) ==
  /\ readyState[c] = "OPEN"
  /\ inbox' = Deliver(BroadcastTargets(k, c), TypingEvent(type, k))
  /\ UNCHANGED <<readyState, hubVars, broadcasts, turnVars, storeVars>>

\* An absent field of an inbound event, and JavaScript's truthiness of a field.
Undefined == "<undefined>"
TruthyUnlessUndefined(v) == v # Undefined
Truthy(v) == v # Undefined /\ v # ""

\* A case of handleWebSocketMessage whose if is false: nothing is done.
Ignore(message) ==
  /\ ignored' = message.type
  /\ UNCHANGED <<readyState, connectedClients, joinedAcks, inbox, broadcasts, turnVars, storeVars>>

\* ws.on('message') -> handleWebSocketMessage: the switch on message.type; a
\* send_message that passes its if starts turn t.
HandleWebSocketMessage(t, c, message) ==
  /\ readyState[c] = "OPEN"
  /\ CASE message.type = "join_conversation" ->
            IF Truthy(message.conversationId)
            THEN JoinConversation(c, message.conversationId)
            ELSE Ignore(message)
       [] message.type = "send_message" ->
            IF Truthy(message.conversationId) /\ Truthy(message.content)
            THEN SendMessage(t, c, message.conversationId, message.content)
            ELSE Ignore(message)
       [] message.type \in {"typing_start", "typing_stop"} ->
            IF Truthy(message.conversationId)
            THEN Typing(c, message.type, message.conversationId)
            ELSE Ignore(message)

\* Inbound events with a missing or empty field.
Missing == {Undefined, ""}
EventTypes == {"join_conversation", "send_message", "typing_start", "typing_stop"}
MalformedEvents ==
  {m \in [type : EventTypes, conversationId : ConvIds \cup {Undefined, ""},
          content : Contents \cup {Undefined, ""}] :
     \/ m.conversationId \in Missing /\ (m.type # "send_message" => m.content = Undefined)
     \/ m.type = "send_message" /\ m.conversationId \in ConvIds /\ m.content \in Missing}

\* The awaits of generateResponse resolving, with a result or a rejection.
GenerateResponseStep(t) ==
  \/ GetHistoryOk(t)
  \/ SearchStoreOk(t)
  \/ GetPagesOk(t)
  \/ GetBlogPostsOk(t)
  \/ GatewayOk(t)
  \/ GatewayFail(t)
  \/ GatewaySilent(t)
  \/ SaveAiOk(t)
  \/ LogAiOk(t)
  \/ UpdateLastOk(t)
  \/ TryFail(t)
  \/ SaveFallbackOk(t)
  \/ SaveFallbackFail(t)

\* The awaits of handleUserMessage resolving.
HandleUserMessageStep(t) ==
  \/ SaveUserOk(t)
  \/ SaveUserFail(t)
  \/ GenerateResponseStep(t)

\* The awaits of the REST message route resolving.
RestRouteStep(t) ==
  \/ RestSaveOk(t)
  \/ RestGetConvOk(t)
  \/ RestFail(t)

\* ----------------------------------------------------------------- Next
\* The server with its turns: connections come and go, join, send over the
\* socket or post over REST; the interval timer sweeps.
Next ==
  \/ Connect
  \/ \E c \in ConnSet : Drop(c)
  \/ \E c \in ConnSet : Close(c)
  \/ \E c \in ConnSet, k \in ConvIds : JoinConversation(c, k)
  \/ Sweep
  \/ \E t \in 1..HubTurns, c \in ConnSet, k \in ConvIds, content \in Contents :
       SendMessage(t, c, k, content)
  \/ \E t \in 1..HubTurns, k \in ConvIds, role \in {"user", "assistant"}, content \in Contents :
       RestPostMessage(t, k, role, content)
  \/ \E t \in Turns : HandleUserMessageStep(t)
  \/ \E t \in Turns : RestRouteStep(t)

Spec == Init /\ [][Next]_vars

\* The hub alone: connections come and go, join and relay typing events; the
\* interval timer sweeps.
HubNext ==
  \/ Connect
  \/ \E c \in ConnSet : Drop(c)
  \/ \E c \in ConnSet : Close(c)
  \/ \E c \in ConnSet, k \in ConvIds : JoinConversation(c, k)
  \/ Sweep
  \/ \E c \in ConnSet, type \in {"typing_start", "typing_stop"}, k \in ConvIds :
       Typing(c, type, k)

HubSpec == Init /\ [][HubNext]_vars

\* The inbound events of the hub as they arrive at handleWebSocketMessage,
\* well-formed joins and typing events and malformed events of every type.
HubEvents ==
  MalformedEvents \cup
    [type : {"join_conversation", "typing_start", "typing_stop"},
     conversationId : ConvIds, content : {Undefined}]

EventNext ==
  \/ Connect
  \/ \E c \in ConnSet : Close(c)
  \/ \E c \in ConnSet, message \in HubEvents : HandleWebSocketMessage(1, c, message)

EventSpec == Init /\ [][EventNext]_vars

\* Concurrent turns of one conversation: ws1 has joined convA (the state Spec
\* reaches by Connect and JoinConversation("ws1", "convA")) and sends messages
\* while earlier turns are still in flight.
TurnInit ==
  /\ readyState = [c \in ConnSet |-> IF c = "ws1" THEN "OPEN" ELSE "NONE"]
  /\ connectedClients = <<[key |-> "convA", ws |-> "ws1"]>>
  /\ joinedAcks = [c \in ConnSet |-> [k \in ConvIds |->
                     IF c = "ws1" /\ k = "convA" THEN 1 ELSE 0]]
  /\ inbox = [c \in ConnSet |-> {}]
  /\ broadcasts = {}
  /\ pc = [t \in Turns |-> "idle"]
  /\ req = [t \in Turns |-> NoReq]
  /\ ctx = [t \in Turns |-> NoCtx]
  /\ gatewayLog = [t \in Turns |-> << >>]
  /\ messages = << >>
  /\ aiInteractions = << >>
  /\ lastMessageAt = [k \in ConvIds |-> 0]
  /\ ignored = "none"

TurnContents == {"Can I get a refund for my order?"}

TurnNext ==
  \/ \E t \in Turns, content \in TurnContents : SendMessage(t, "ws1", "convA", content)
  \/ \E t \in Turns : HandleUserMessageStep(t)

TurnSpec == TurnInit /\ [][TurnNext]_vars

\* TurnSpec with the event loop's progress: a settled promise resumes its
\* turn. Whether the endpoint answers is the endpoint's choice.
TurnFairSpec ==
  TurnSpec /\ \A t \in Turns : WF_vars(HandleUserMessageStep(t) /\ pc'[t] # "gatewaySilent")

\* One conversation, ws1 joined, and send_message events over the texts whose
\* classification decides the shape of the getStoreContext fetch.
ClassifyNext ==
  \/ \E t \in 1..HubTurns, content \in ClassifyContents : SendMessage(t, "ws1", "convA", content)
  \/ \E t \in 1..HubTurns : HandleUserMessageStep(t)

ClassifySpec == TurnInit /\ [][ClassifyNext]_vars

\* One turn at a time on convA, against an endpoint that may give any answer.
GatewayNext ==
  \/ \E t \in 1..HubTurns, content \in ClassifyContents : SendMessage(t, "ws1", "convA", content)
  \/ \E t \in 1..HubTurns : HandleUserMessageStep(t)
  \/ \E t \in 1..HubTurns, answer \in EndpointAnswers : GatewayReturn(t, answer)

GatewaySpec == TurnInit /\ [][GatewayNext]_vars

\* Two conversations side by side: ws1 has joined convA and ws2 is connected;
\* turn 1 is a send_message of ws1 on convA, turn 2 one of ws2 on convB, and
\* joins and typing events for convB arrive at any time.
IsolationInit ==
  /\ readyState = [c \in ConnSet |-> "OPEN"]
  /\ connectedClients = <<[key |-> "convA", ws |-> "ws1"]>>
  /\ joinedAcks = [c \in ConnSet |-> [k \in ConvIds |->
                     IF c = "ws1" /\ k = "convA" THEN 1 ELSE 0]]
  /\ inbox = [c \in ConnSet |-> {}]
  /\ broadcasts = {}
  /\ pc = [t \in Turns |-> "idle"]
  /\ req = [t \in Turns |-> NoReq]
  /\ ctx = [t \in Turns |-> NoCtx]
  /\ gatewayLog = [t \in Turns |-> << >>]
  /\ messages = << >>
  /\ aiInteractions = << >>
  /\ lastMessageAt = [k \in ConvIds |-> 0]
  /\ ignored = "none"

IsolationNext ==
  \/ \E content \in TurnContents : SendMessage(1, "ws1", "convA", content)
  \/ \E content \in TurnContents : SendMessage(2, "ws2", "convB", content)
  \/ \E t \in 1..2 : HandleUserMessageStep(t)
  \/ JoinConversation("ws2", "convB")
  \/ \E c \in ConnSet, type \in {"typing_start", "typing_stop"} : Typing(c, type, "convB")

IsolationSpec == IsolationInit /\ [][IsolationNext]_vars

\* One turn on convA while the registry changes under it: ws1 has joined
\* convA; connections open, drop, close and join while the turn is in flight.
ChurnNext ==
  \/ Connect
  \/ \E c \in ConnSet : Drop(c)
  \/ \E c \in ConnSet : Close(c)
  \/ \E c \in ConnSet, k \in ConvIds : JoinConversation(c, k)
  \/ \E c \in ConnSet, content \in TurnContents : SendMessage(1, c, "convA", content)
  \/ HandleUserMessageStep(1)

ChurnSpec == TurnInit /\ [][ChurnNext]_vars

\* One turn on a conversation that already has up to MaxHistory messages.
PriorMessage(i) ==
  [id |-> i, turn |-> 0, conversationId |-> "convA",
   role |-> IF i % 2 = 1 THEN "user" ELSE "assistant",
   content |-> "earlier", metadata |-> EmptyMetadata]

HistoryInit ==
  /\ readyState = [c \in ConnSet |-> IF c = "ws1" THEN "OPEN" ELSE "NONE"]
  /\ connectedClients = <<[key |-> "convA", ws |-> "ws1"]>>
  /\ joinedAcks = [c \in ConnSet |-> [k \in ConvIds |->
                     IF c = "ws1" /\ k = "convA" THEN 1 ELSE 0]]
  /\ inbox = [c \in ConnSet |-> {}]
  /\ broadcasts = {}
  /\ pc = [t \in Turns |-> "idle"]
  /\ req = [t \in Turns |-> NoReq]
  /\ ctx = [t \in Turns |-> NoCtx]
  /\ gatewayLog = [t \in Turns |-> << >>]
  /\ \E n \in 0..MaxHistory : messages = [i \in 1..n |-> PriorMessage(i)]
  /\ aiInteractions = << >>
  /\ lastMessageAt = [k \in ConvIds |-> 0]
  /\ ignored = "none"

HistoryNext ==
  \/ \E content \in TurnContents : SendMessage(1, "ws1", "convA", content)
  \/ HandleUserMessageStep(1)

HistorySpec == HistoryInit /\ [][HistoryNext]_vars

\* One turn at a time on convA over the texts with several keywords.
PriorityNext ==
  \/ \E t \in 1..HubTurns, content \in PriorityContents : SendMessage(t, "ws1", "convA", content)
  \/ \E t \in 1..HubTurns : HandleUserMessageStep(t)

PrioritySpec == TurnInit /\ [][PriorityNext]_vars

\* ------------------------------------------------------------- helpers
MessageSet == {messages[i] : i \in 1..Len(messages)}
AssistantMessages(t) == {m \in MessageSet : m.turn = t /\ m.role = "assistant"}
UserMessages(t) == {m \in MessageSet : m.turn = t /\ m.role = "user"}
IsWsTurn(t) == req[t].kind = "ws"
GatewayFailed(t) == Len(gatewayLog[t]) > 0 /\ gatewayLog[t][Len(gatewayLog[t])] = "fail"

\* ------------------------------------------------------------------ C1
\* C1: every user-role Message persisted by an accepted send_message has, once
\* its turn is over, exactly one assistant-role Message of that turn, whatever
\* calls failed during the turn (the fallback write included).
C1_ExactlyOneAssistantMessage ==
  \A t \in Turns :
    (IsWsTurn(t) /\ pc[t] = "done" /\ UserMessages(t) # {})
      => Cardinality(AssistantMessages(t)) = 1

\* ------------------------------------------------------------------ C2
\* C2: in a send_message turn the user-role Message is in the messages table
\* whenever the Gateway is being or has been invoked, and it is still there
\* after the Gateway call failed.
C2_UserMessageBeforeGateway ==
  \A t \in Turns :
    (IsWsTurn(t) /\ (pc[t] = "gateway" \/ gatewayLog[t] # << >>))
      => \E m \in UserMessages(t) :
           /\ m.conversationId = req[t].conversationId
           /\ m.content = req[t].content

C2_Witness ==
  \E t \in Turns :
    /\ IsWsTurn(t)
    /\ pc[t] = "done"
    /\ GatewayFailed(t)
    /\ UserMessages(t) # {}

\* ------------------------------------------------------------------ C3
\* C3: in a send_message turn the new_message broadcast of the assistant turn
\* (reply or fallback) is made, and reaches any connection, only after the
\* new_message broadcast of that turn's user message.
C3_UserBroadcastFirst ==
  \A t \in Turns :
    IsWsTurn(t) =>
      /\ <<t, "assistant">> \in broadcasts => <<t, "user">> \in broadcasts
      /\ \A c \in ConnSet :
           NewMessageEvent(t, "assistant") \in inbox[c] => <<t, "user">> \in broadcasts

C3_Witness ==
  /\ \A t \in Turns :
       /\ IsWsTurn(t)
       /\ pc[t] = "done"
       /\ NewMessageEvent(t, "user") \in inbox["ws1"]
       /\ NewMessageEvent(t, "assistant") \in inbox["ws1"]
  /\ \E i, j \in 1..Len(messages) :
       /\ i < j
       /\ messages[i].turn = 2 /\ messages[i].role = "assistant"
       /\ messages[j].turn = 1 /\ messages[j].role = "assistant"

\* ------------------------------------------------------------------ C4
\* C4: a new_message broadcast of a send_message turn on conversation C reaches
\* every open connection that sent join_conversation for C (and for no other
\* conversation), and no connection that never joined C.
C4_FanOutToEveryJoined ==
  [][\A t \in Turns, role \in {"user", "assistant"} :
       (IsWsTurn(t) /\ <<t, role>> \in broadcasts' /\ <<t, role>> \notin broadcasts)
         => \A c \in ConnSet :
              /\ ( /\ readyState[c] = "OPEN"
                   /\ joinedAcks[c][req[t].conversationId] > 0
                   /\ \A k \in ConvIds \ {req[t].conversationId} : joinedAcks[c][k] = 0 )
                 => NewMessageEvent(t, role) \in inbox'[c]
              /\ joinedAcks[c][req[t].conversationId] = 0
                 => NewMessageEvent(t, role) \notin inbox'[c]]_vars

\* ------------------------------------------------------------------ C5
\* C5: a connection is sent a new_message event of conversation C only while
\* the registry holds it for C, on the socket path and on the REST path.
C5_NewMessageOnlyToRegistered ==
  [][\A c \in ConnSet : \A e \in inbox'[c] \ inbox[c] :
       e.type = "new_message"
         => \E x \in Entries(connectedClients) : x.key = e.conversationId /\ x.ws = c]_vars

\* ------------------------------------------------------------------ C6
\* C6: a join_conversation from connection c for conversation k leaves exactly
\* one registration of the pair (c, k), also when it repeats an earlier join,
\* and sends exactly one joined acknowledgement, to c alone.
RegistrationsOf(m, c, k) == {i \in 1..Len(m) : m[i].key = k /\ m[i].ws = c}

C6_IdempotentJoin ==
  [][\A c \in ConnSet, k \in ConvIds :
       JoinConversation(c, k)
         => /\ Cardinality(RegistrationsOf(connectedClients', c, k)) = 1
            /\ joinedAcks'[c][k] = joinedAcks[c][k] + 1
            /\ \A c2 \in ConnSet, k2 \in ConvIds :
                 <<c2, k2>> # <<c, k>> => joinedAcks'[c2][k2] = joinedAcks[c2][k2]
            /\ inbox' = inbox]_vars

C6_Witness ==
  \E c \in ConnSet, k \in ConvIds :
    /\ joinedAcks[c][k] = 2
    /\ Cardinality(RegistrationsOf(connectedClients, c, k)) = 1
    /\ \A c2 \in ConnSet, k2 \in ConvIds : <<c2, k2>> # <<c, k>> => joinedAcks[c2][k2] = 0

\* ------------------------------------------------------------------ C7
\* C7: a connection is registered to at most one conversation at any time.
C7_OneConversationPerConnection ==
  \A c \in ConnSet :
    Cardinality({i \in 1..Len(connectedClients) : connectedClients[i].ws = c}) <= 1

\* ------------------------------------------------------------------ C8
\* C8: a sweep leaves no registration of a connection whose transport is not
\* open, closed or dropped without a close event, and no broadcast sends to a
\* connection that is not open.
C8_SweepReclaims ==
  [][/\ Sweep => \A e \in Entries(connectedClients') : readyState'[e.ws] = "OPEN"
     /\ \A c \in ConnSet : inbox'[c] # inbox[c] => readyState[c] = "OPEN"]_vars

C8_Witness ==
  /\ connectedClients = << >>
  /\ \E c \in ConnSet, k \in ConvIds :
       /\ readyState[c] = "CLOSING"
       /\ joinedAcks[c][k] > 0
       /\ TypingEvent("typing_start", k) \in inbox[c]

\* ------------------------------------------------------------------ C9
\* C9: the step that handles a connection's close event leaves no registry
\* entry for that connection.
C9_CloseUnregisters ==
  [][\A c \in ConnSet :
       (readyState[c] # "CLOSED" /\ readyState'[c] = "CLOSED")
         => \A e \in Entries(connectedClients') : e.ws # c]_vars

\* ----------------------------------------------------------------- C10
\* C10: a turn whose Gateway call failed ends with an assistant-role Message
\* whose content is the apology and whose metadata is exactly
\* {error: true, errorType: "generation_failed"}, broadcast as the reply, after
\* one Gateway call and no more.
C10_FallbackOnGatewayFailure ==
  \A t \in Turns :
    (IsWsTurn(t) /\ pc[t] = "done" /\ GatewayFailed(t))
      => /\ \E m \in AssistantMessages(t) :
              /\ m.content = ApologyText
              /\ m.metadata = [error |-> TRUE, errorType |-> "generation_failed"]
         /\ <<t, "assistant">> \in broadcasts
         /\ Len(gatewayLog[t]) = 1

\* ----------------------------------------------------------------- C11
\* C11: a turn whose Gateway call is outstanding, answered or not, eventually
\* ends (with the reply or the fallback).
C11_GatewayWaitIsBounded ==
  \A t \in Turns : (pc[t] \in {"gateway", "gatewaySilent"}) ~> (pc[t] = "done")

\* ----------------------------------------------------------------- C12
\* C12: a send_message turn whose user-turn write failed ends with an error
\* event at the sending connection and at no other, with nothing broadcast, no
\* Gateway call and no assistant-role Message.
EventsOfTurn(c, t) == {e \in inbox[c] : e.turn = t}

C12_UserWriteFailureAbortsTurn ==
  \A t \in Turns :
    (IsWsTurn(t) /\ pc[t] = "done" /\ UserMessages(t) = {})
      => /\ AssistantMessages(t) = {}
         /\ gatewayLog[t] = << >>
         /\ <<t, "user">> \notin broadcasts /\ <<t, "assistant">> \notin broadcasts
         /\ \A c \in ConnSet :
              EventsOfTurn(c, t) \subseteq (IF c = req[t].ws THEN {ErrorEvent(t)} ELSE {})
         /\ readyState[req[t].ws] = "OPEN" => ErrorEvent(t) \in inbox[req[t].ws]

C12_Witness ==
  /\ IsWsTurn(1) /\ pc[1] = "done" /\ UserMessages(1) = {}
  /\ inbox["ws1"] = {ErrorEvent(1)}
  /\ messages = << >>

\* ----------------------------------------------------------------- C13
\* C13: handling a join_conversation or typing event without a conversationId,
\* or a send_message with a missing or empty conversationId or content, changes
\* no registration, sends no acknowledgement or broadcast, persists nothing and
\* starts no turn.
C13_MalformedEventHasNoEffect ==
  [][\A c \in ConnSet, message \in MalformedEvents :
       HandleWebSocketMessage(1, c, message)
         => UNCHANGED <<readyState, connectedClients, joinedAcks, inbox, broadcasts,
                        pc, req, ctx, gatewayLog, messages, aiInteractions, lastMessageAt>>]_vars

C13_Witness ==
  /\ ignored = "send_message"
  /\ connectedClients # << >>
  /\ \E c \in ConnSet : inbox[c] # {}

\* ----------------------------------------------------------------- C14
\* C14: a typing_start or typing_stop event that connection c sends for
\* conversation k is relayed to every other open connection that joined k (and
\* no other conversation); the relay never goes back to c, persists no message
\* and calls no gateway.
C14_TypingRelayedToOthers ==
  \A c \in ConnSet, k \in ConvIds :
    readyState[c] = "OPEN"
      => \A c2 \in ConnSet \ {c} :
           ( /\ readyState[c2] = "OPEN"
             /\ joinedAcks[c2][k] > 0
             /\ \A k2 \in ConvIds \ {k} : joinedAcks[c2][k2] = 0 )
             => c2 \in BroadcastTargets(k, c)

\* ----------------------------------------------------------------- C15
\* C15: the intent recorded with a reply is a function of the user's text, and
\* it is policy_question for "Can I get a refund for my order?", product_search
\* for "Looking for running shoes" and complaint for "This is broken and I'm upset".
C15_ClassifierExamples ==
  \A t \in Turns : \A m \in AssistantMessages(t) :
    m.metadata # FallbackMetadata
      => /\ req[t].content = "Can I get a refund for my order?"
              => m.metadata.intent = "policy_question"
         /\ req[t].content = "Looking for running shoes"
              => m.metadata.intent = "product_search"
         /\ req[t].content = "This is broken and I'm upset"
              => m.metadata.intent = "complaint"
         /\ \A t2 \in Turns : \A m2 \in AssistantMessages(t2) :
              (m2.metadata # FallbackMetadata /\ req[t2].content = req[t].content)
                => m2.metadata.intent = m.metadata.intent

\* ----------------------------------------------------------------- C16
\* C16: the first send_message of a conversation with the content "Do you have
\* wireless headphones under $50?" has its store context searched with the
\* product-search limit 20, and its reply records the intent product_search.
C16_HeadphonesIsProductSearch ==
  \A t \in Turns :
    ( /\ IsWsTurn(t)
      /\ req[t].content = "Do you have wireless headphones under $50?"
      /\ \A m \in MessageSet : m.conversationId = req[t].conversationId => m.turn = t )
      => /\ ctx[t].limit # NoCtx.limit => ctx[t].limit = 20
         /\ \A m \in AssistantMessages(t) :
              m.metadata # FallbackMetadata => m.metadata.intent = "product_search"

\* ----------------------------------------------------------------- C17
\* C17: once a turn is over with its reply or its fallback message saved, the
\* conversation's lastMessageAt is no older than the turn's user message; and
\* no step lowers a conversation's lastMessageAt.
C17_LastMessageAtUpdated ==
  /\ [](\A t \in Turns :
          (pc[t] = "done" /\ AssistantMessages(t) # {})
            => \A u \in UserMessages(t) : lastMessageAt[req[t].conversationId] >= u.id)
  /\ [][\A k \in ConvIds : lastMessageAt'[k] >= lastMessageAt[k]]_vars

\* ----------------------------------------------------------------- C18
\* C18: whenever the endpoint's answer is a network failure, a non-success
\* status or a malformed response (a body that is not JSON, no choices, no
\* generated text), the Gateway call ends with the generation-failed error and
\* the turn goes to the fallback; no reply is saved for it.
C18_EveryFailureKindIsGenerationFailed ==
  [][\A t \in Turns, answer \in EndpointAnswers \ {"text"} :
       GatewayReturn(t, answer)
         => /\ GatewayFailed(t)'
            /\ pc'[t] = "saveFallback"]_vars

\* ----------------------------------------------------------------- C19
\* C19: a turn whose user message was persisted and that ended without a
\* Gateway call (the history read or a store fetch failed) has the apology
\* message persisted and broadcast, and its sender was sent no error event.
C19_ContextFailureGoesToFallback ==
  \A t \in Turns :
    (IsWsTurn(t) /\ pc[t] = "done" /\ UserMessages(t) # {} /\ gatewayLog[t] = << >>)
      => /\ \E m \in AssistantMessages(t) :
              m.content = ApologyText /\ m.metadata = FallbackMetadata
         /\ <<t, "assistant">> \in broadcasts
         /\ ErrorEvent(t) \notin inbox[req[t].ws]

\* ----------------------------------------------------------------- C20
\* C20: while the turn of convA is suspended at any of its awaits, a join, a
\* typing event and a send_message for convB can be handled and the awaits of
\* convB's turn can resume; and no step of convA's turn, a failure included,
\* changes the registrations, convB's turn, convB's rows or what ws2 was sent.
C20_ConversationsIndependent ==
  /\ [](pc[1] \notin {"idle", "done"}
          => /\ TotalJoins < MaxJoins => ENABLED JoinConversation("ws2", "convB")
             /\ \A type \in {"typing_start", "typing_stop"} : ENABLED Typing("ws2", type, "convB")
             /\ pc[2] = "idle"
                  => \A content \in TurnContents : ENABLED SendMessage(2, "ws2", "convB", content)
             /\ pc[2] \notin {"idle", "done", "gatewaySilent"} => ENABLED HandleUserMessageStep(2))
  /\ [][HandleUserMessageStep(1)
          => /\ UNCHANGED <<connectedClients, joinedAcks, pc[2], req[2], ctx[2], gatewayLog[2]>>
             /\ UNCHANGED <<inbox["ws2"], lastMessageAt["convB"]>>
             /\ {m \in MessageSet' : m.conversationId = "convB"}
                  = {m \in MessageSet : m.conversationId = "convB"}]_vars

C20_Witness ==
  /\ pc[1] = "gatewaySilent"
  /\ pc[2] = "done"
  /\ connectedClients = <<[key |-> "convA", ws |-> "ws1"], [key |-> "convB", ws |-> "ws2"]>>
  /\ NewMessageEvent(2, "user") \in inbox["ws2"]
  /\ NewMessageEvent(2, "assistant") \in inbox["ws2"]
  /\ \E m \in AssistantMessages(2) : m.metadata # FallbackMetadata

\* ----------------------------------------------------------------- C21
\* C21: a broadcast of a turn (the user echo, the reply, the fallback) reaches
\* every open connection the registry holds for the conversation whatever the
\* state of the other registered transports, sends nothing to a transport that
\* is not open, and returns to its caller: after the user echo the turn goes on
\* to generateResponse, after the reply it ends without an error event.
RegisteredFor(k) == {x.ws : x \in {e \in Entries(connectedClients) : e.key = k}}

C22_AtMostOneAssistantMessage ==
  \A t \in Turns : Cardinality(AssistantMessages(t)) <= 1

\* ----------------------------------------------------------------- C23
\* C23: while the Gateway request of a turn is being prepared or is out, its
\* history holds at most 10 messages, all of the turn's conversation, in
\* creation order, and the only messages of the conversation it leaves out are
\* older than every message it holds; the request is the system prompt, then
\* that history, then the current user text.
C23_HistoryIsLastTen ==
  \A t \in Turns :
    pc[t] \in {"searchStore", "getPages", "getBlogPosts", "gateway", "gatewaySilent"}
      => LET all == getMessages(req[t].conversationId)
             sent == ZaiMessages(t)
             n == Len(sent) - 2
         IN /\ n <= 10
            /\ n = IF Len(all) <= 10 THEN Len(all) ELSE 10
            /\ \A i \in 1..n :
                 /\ sent[i + 1].role = messages[all[Len(all) - n + i]].role
                 /\ sent[i + 1].content = messages[all[Len(all) - n + i]].content
            /\ \A i \in 1..(Len(all) - 1) : all[i] < all[i + 1]
            /\ sent[1].role = "system"
            /\ sent[Len(sent)] = [role |-> "user", content |-> req[t].content]

C23_Witness ==
  /\ pc[1] = "gateway"
  /\ Len(getMessages("convA")) = 12
  /\ Len(ZaiMessages(1)) = 12
  /\ ctx[1].history[1] = 3

\* ----------------------------------------------------------------- C24
\* C24: the intent recorded with a reply is the first class, in the order
\* product_search, policy_question, complaint, general_inquiry, one of whose
\* keywords occurs in the lower-cased text as a substring, and other when no
\* keyword of any class occurs.
ClassKeywords ==
  [product_search |-> {"looking for", "find", "recommend", "suggest"},
   policy_question |-> {"return", "shipping", "policy", "refund"},
   complaint |-> {"problem", "issue", "wrong", "complaint"},
   general_inquiry |-> {"how", "what", "when", "where"}]
Priority == <<"product_search", "policy_question", "complaint", "general_inquiry">>
HasClass(query, class) ==
  \E kw \in ClassKeywords[class] : includes(toLowerCase(query), kw)

C24_PriorityOrder ==
  \A t \in Turns : \A m \in AssistantMessages(t) :
    m.metadata # FallbackMetadata
      => /\ \A i \in 1..Len(Priority) :
              (HasClass(req[t].content, Priority[i])
                 /\ \A j \in 1..(i - 1) : ~HasClass(req[t].content, Priority[j]))
                => m.metadata.intent = Priority[i]
         /\ (\A i \in 1..Len(Priority) : ~HasClass(req[t].content, Priority[i]))
              => m.metadata.intent = "other"

C24_Witness ==
  /\ req[1].content = "What is wrong with the shipping?"
  /\ HasClass(req[1].content, "policy_question")
  /\ HasClass(req[1].content, "complaint")
  /\ HasClass(req[1].content, "general_inquiry")
  /\ \E m \in AssistantMessages(1) :
       m.metadata # FallbackMetadata /\ m.metadata.intent = "policy_question"

\* ----------------------------------------------------------------- C25
\* C25: a sweep removes every registry entry whose transport is not open and
\* no other, keeps the entries of open connections as they were and in their
\* order, and a second sweep right after it would change nothing.
C25_SweepExactAndIdempotent ==
  [][Sweep
       => /\ \A e \in Entries(connectedClients) :
               e \in Entries(connectedClients') <=> readyState[e.ws] = "OPEN"
          /\ Entries(connectedClients') \subseteq Entries(connectedClients)
          /\ \A i, j \in 1..Len(connectedClients') :
               i < j => \E a, b \in 1..Len(connectedClients) :
                          /\ a < b
                          /\ connectedClients[a] = connectedClients'[i]
                          /\ connectedClients[b] = connectedClients'[j]
          /\ Cleanup(connectedClients') = connectedClients'
          /\ UNCHANGED <<readyState, joinedAcks, inbox>>]_vars

C25_Witness ==
  /\ connectedClients = <<[key |-> "convA", ws |-> "ws1"]>>
  /\ readyState["ws1"] = "OPEN"
  /\ readyState["ws2"] # "OPEN"
  /\ joinedAcks["ws2"]["convB"] > 0

\* ----------------------------------------------------------------- C26
\* C26: every row of ai_interactions references a reply (not a fallback) that
\* its own turn persisted in its own conversation; once a turn is over each of
\* its replies has exactly one such row; and a reply's metadata lists at most
\* 5 context products.
C26_InteractionLogOneToOne ==
  /\ \A i \in 1..Len(aiInteractions) :
       \E m \in AssistantMessages(aiInteractions[i].turn) :
         /\ m.id = aiInteractions[i].messageId
         /\ m.conversationId = aiInteractions[i].conversationId
         /\ m.metadata # FallbackMetadata
  /\ \A t \in Turns : \A m \in AssistantMessages(t) :
       (pc[t] = "done" /\ m.metadata # FallbackMetadata)
         => /\ Cardinality({i \in 1..Len(aiInteractions) :
                              aiInteractions[i].messageId = m.id}) = 1
            /\ m.metadata.contextProducts <= 5

C28_RecipientsAtBroadcastTime ==
  [][\A t \in Turns :
       (IsWsTurn(t) /\ (UpdateLastOk(t) \/ SaveFallbackOk(t)))
         => \A c \in ConnSet :
              NewMessageEvent(t, "assistant") \in inbox'[c]
                <=> (c \in RegisteredFor(req[t].conversationId) /\ readyState[c] = "OPEN")]_vars

\* The sender got the user echo but not the reply; the late joiner got the
\* reply without the user echo.
C28_Witness ==
  /\ pc[1] = "done" /\ req[1].ws = "ws1" /\ readyState["ws1"] = "OPEN"
  /\ inbox["ws1"] = {NewMessageEvent(1, "user")}
  /\ inbox["ws2"] = {NewMessageEvent(1, "assistant")}

\* ----------------------------------------------------------------- C29
\* C29: whenever a turn has resolved the store identity for its Store Context
\* Snapshot, on the WebSocket path or on the REST path, that identity is the
\* store that owns the turn's conversation, never the conversation id.
C29_StoreContextUsesOwningStore ==
  \A t \in Turns :
    ctx[t].storeId # ""
      => /\ ctx[t].storeId = StoreOf(req[t].conversationId)
         /\ ctx[t].storeId # req[t].conversationId

\* ----------------------------------------------------------------- C30
\* C30: in the message list a turn sends to the model, the row of the turn's
\* own user message is not among the history entries, so that the current
\* user text is sent once, as the final user message.
C30_UserTextSentOnce ==
  \A t \in Turns :
    pc[t] \in {"searchStore", "getPages", "getBlogPosts", "gateway", "gatewaySilent"}
      => LET sent == ZaiMessages(t)
         IN /\ \A m \in UserMessages(t) :
                 \A i \in 1..Len(ctx[t].history) : ctx[t].history[i] # m.id
            /\ Cardinality({i \in 1..Len(sent) :
                              /\ sent[i].role = "user"
                              /\ sent[i].content = req[t].content}) = 1

====
